---------------------------- MODULE Spec2Model ----------------------------
(***************************************************************************)
(* Model of the otolith analysis endpoint of Matsya Ocean Insights:        *)
(* the HTTP handler of /api/otolith/analyze (backend/app/main.py) and the  *)
(* pipeline OtolithAnalyzer.analyze_otolith_image with its stages          *)
(* (backend/app/services.py).                                              *)
(*                                                                         *)
(* Numbers.  Ring radii, ring spacings, pixel sizes and the confidence     *)
(* score are integers in the code and integers here.  A value the code     *)
(* rounds with round(x, 2) is held in hundredths (the field 12.57 is the   *)
(* integer 1257); such fields are marked "hundredths" below.               *)
(*                                                                         *)
(* OpenCV.  What cv2 computes from the pixels is an input of the model:    *)
(* an image is the record of what imdecode, HoughCircles and findContours  *)
(* answer for its bytes (a value, None, or an exception).                  *)
(***************************************************************************)
EXTENDS Integers, Sequences, FiniteSets, TLC

(***************************************************************************)
(* Bounds of the model.                                                    *)
(***************************************************************************)
MaxRings == 3      \* HoughCircles answers with at most MaxRings circles
MaxRadius == 7     \* the circles' radii lie in MinRadius..MaxRadius
MaxCalls == 2      \* the same upload is posted at most MaxCalls times
WideMaxRings == 4  \* circles of the images SpecAnalysis analyses
WideMaxRadius == 10  \* their radii lie in MinRadius..WideMaxRadius
NumJobs == 2       \* requests the event loop serves at the same time
NumSockets == 2    \* websocket clients of /ws/updates
NumBroadcasts == 2 \* broadcast tasks created by the handlers

(***************************************************************************)
(* Program constants.                                                      *)
(***************************************************************************)
MinRadius == 5     \* HoughCircles(minRadius=5)
MinDist == 10      \* HoughCircles(minDist=10)

(***************************************************************************)
(* Arithmetic.                                                             *)
(***************************************************************************)
Max(a, b) == IF a >= b THEN a ELSE b

Min(a, b) == IF a <= b THEN a ELSE b

\* round(num / den) of Python for num >= 0, den > 0: to nearest, ties to even.
RoundDiv(num, den) ==
    LET q == num \div den
        r == num % den
    IN  IF 2 * r < den THEN q
        ELSE IF 2 * r > den THEN q + 1
        ELSE IF q % 2 = 0 THEN q ELSE q + 1

\* int(num / den) of Python for num >= 0, den > 0: truncation.
TruncDiv(num, den) == num \div den

RECURSIVE SumSeq(_)
SumSeq(s) == IF s = <<>> THEN 0 ELSE Head(s) + SumSeq(Tail(s))

RECURSIVE SumSquares(_)
SumSquares(s) == IF s = <<>> THEN 0 ELSE Head(s) * Head(s) + SumSquares(Tail(s))

(***************************************************************************)
(* detect_growth_rings.                                                    *)
(***************************************************************************)
\* One entry of the ring list built from a circle (x, y, r); area is
\* round(3.14159 * r * r, 2), in hundredths.
Ring(c) ==
    [center_x |-> c.x, center_y |-> c.y, radius |-> c.r,
     area |-> RoundDiv(314159 * c.r * c.r, 1000)]

\* list.sort(key=radius): a stable sort, ascending by radius.
RECURSIVE InsertByRadius(_, _)
InsertByRadius(sorted, ring) ==
    IF sorted = <<>> THEN <<ring>>
    ELSE IF Head(sorted).radius <= ring.radius
         THEN <<Head(sorted)>> \o InsertByRadius(Tail(sorted), ring)
         ELSE <<ring>> \o sorted

RECURSIVE SortByRadiusFrom(_, _)
SortByRadiusFrom(done, todo) ==
    IF todo = <<>> THEN done
    ELSE SortByRadiusFrom(InsertByRadius(done, Head(todo)), Tail(todo))

\* Mutant of SortByRadius: the sort is left out.
SortByRadius_Unsorted(rings) == rings

SortByRadius(rings) == SortByRadiusFrom(<<>>, rings)

\* The rings of an image.  image.circles is what HoughCircles answers: the
\* sequence of circles (empty for None); image.hough_raises says that
\* GaussianBlur or HoughCircles raises instead, which the stage's own except
\* clause turns into the empty list.
detect_growth_rings(image) ==
    IF image.hough_raises THEN <<>>
    ELSE SortByRadius([i \in 1..Len(image.circles) |-> Ring(image.circles[i])])

(***************************************************************************)
(* calculate_otolith_measurements.                                         *)
(***************************************************************************)
ZeroMeasurements_AspectZero ==
    [area |-> 0, perimeter |-> 0, major_axis |-> 0, minor_axis |-> 0,
     aspect_ratio |-> 0, circularity |-> 0,
     center |-> [x |-> 0, y |-> 0], orientation |-> 0]

ZeroMeasurements ==
    [area |-> 0, perimeter |-> 0, major_axis |-> 0, minor_axis |-> 0,
     aspect_ratio |-> 100, circularity |-> 0,
     center |-> [x |-> 0, y |-> 0], orientation |-> 0]

\* max(contours, key=cv2.contourArea): the first contour of largest area.
RECURSIVE LargestContourFrom(_, _)
LargestContourFrom(best, rest) ==
    IF rest = <<>> THEN best
    ELSE LargestContourFrom(IF Head(rest).area > best.area THEN Head(rest) ELSE best,
                            Tail(rest))

LargestContour(contours) == LargestContourFrom(Head(contours), Tail(contours))

\* round(4 * 3.14159 * area / (perimeter * perimeter) if perimeter > 0 else 0, 2)
\* in hundredths, of a contour of c.area square pixels and c.perimeter pixels.
Circularity_Unrounded(c) ==
    IF c.perimeter > 0
    THEN TruncDiv(314159 * c.area, 250 * c.perimeter * c.perimeter)
    ELSE 0

Circularity(c) ==
    IF c.perimeter > 0
    THEN RoundDiv(314159 * c.area, 250 * c.perimeter * c.perimeter)
    ELSE 0

\* The measurements of an image, every number in hundredths.  image.contours
\* is what threshold and findContours answer: the sequence of contours, each
\* with its point count, area, perimeter and fitted ellipse in pixels;
\* image.contour_raises says that threshold, findContours or fitEllipse
\* raises instead, which the stage's own except clause turns into the zeroed
\* record.
calculate_otolith_measurements(image) ==
    IF image.contour_raises THEN ZeroMeasurements
    ELSE IF image.contours = <<>> THEN ZeroMeasurements
    ELSE LET c == LargestContour(image.contours)
             major_axis == Max(c.width, c.height)
             minor_axis == Min(c.width, c.height)
         IN  IF c.npoints >= 5
             THEN [area |-> 100 * c.area,
                   perimeter |-> 100 * c.perimeter,
                   major_axis |-> 100 * major_axis,
                   minor_axis |-> 100 * minor_axis,
                   aspect_ratio |-> IF minor_axis > 0
                                    THEN RoundDiv(100 * major_axis, minor_axis)
                                    ELSE 100,
                   circularity |-> Circularity(c),
                   center |-> [x |-> 100 * c.center_x, y |-> 100 * c.center_y],
                   orientation |-> 100 * c.angle]
             ELSE ZeroMeasurements

(***************************************************************************)
(* Ring spacing statistics.                                                *)
(***************************************************************************)
\* spacings[i] = rings[i]['radius'] - rings[i-1]['radius'].
Spacings_FromFirst(rings) ==
    [i \in 1..(Len(rings) - 1) |-> rings[i + 1].radius - rings[1].radius]

Spacings(rings) ==
    [i \in 1..(Len(rings) - 1) |-> rings[i + 1].radius - rings[i].radius]

\* Len(s) ^ 2 times the variance np.std(s) ^ 2 of the spacings s.
ScaledVariance(s) == Len(s) * SumSquares(s) - SumSeq(s) * SumSeq(s)

\* np.std(s) / (sum(s) / len(s)) < p / q, for sum(s) > 0: both sides squared.
CVBelow(s, p, q) == q * q * ScaledVariance(s) < p * p * SumSeq(s) * SumSeq(s)

\* (m * w) ^ 2 <= 4 * 10^8 * x, computed in two limbs of 10^8 to stay
\* within 32-bit integers (m * w < 10^6).
SquareAtMost(m, w, x) ==
    LET a == m * w
        q == a \div 10000
        r == a % 10000
        u == (2 * q * r) \div 10000
        v == (2 * q * r) % 10000
        low == v * 10000 + r * r
        hi == q * q + u + (low \div 100000000)
    IN  hi < 4 * x \/ (hi = 4 * x /\ low % 100000000 = 0)

RECURSIVE LargestSquareAtMost(_, _, _, _)
LargestSquareAtMost(lo, hi, w, x) ==
    IF lo >= hi THEN lo
    ELSE LET mid == (lo + hi + 1) \div 2
         IN  IF SquareAtMost(mid, w, x)
             THEN LargestSquareAtMost(mid, hi, w, x)
             ELSE LargestSquareAtMost(lo, mid - 1, w, x)

\* round(np.std(s) / (sum(s) / len(s)) * 100, 2) in hundredths, for
\* sum(s) > 0: the integer nearest to 10^4 * sqrt(ScaledVariance(s)) / sum(s).
CVHundredths(s) ==
    (LargestSquareAtMost(0, 20000 * Len(s), SumSeq(s), ScaledVariance(s)) + 1) \div 2

(***************************************************************************)
(* estimate_age_from_rings.  randint is the value random.randint(-1, 1)    *)
(* returns when the code draws it.                                         *)
(***************************************************************************)
\* Mutant of SizeFallbackAge: round(size_factor) in place of int(size_factor).
SizeFallbackAge_Rounded(measurements) ==
    Max(1, RoundDiv(measurements.major_axis, 5000))

\* The age of a ring-less image: max(1, int(major_axis / 50)).
SizeFallbackAge(measurements) == Max(1, TruncDiv(measurements.major_axis, 5000))

\* Mutant of SpacingConsistent: the consistency test never succeeds.
SpacingConsistent_Never(spacings) == FALSE

\* spacing_cv < 0.3.
SpacingConsistent(spacings) == CVBelow(spacings, 3, 10)

\* The code reaches random.randint: avg_spacing > 0 and spacing_cv >= 0.3.
AgeJittered(rings) ==
    /\ Len(rings) > 1
    /\ SumSeq(Spacings(rings)) > 0
    /\ ~SpacingConsistent(Spacings(rings))

estimate_age_from_rings_Threshold02(rings, measurements, randint) ==
    IF rings = <<>> THEN SizeFallbackAge(measurements)
    ELSE LET base_age == Len(rings)
         IN  IF Len(rings) > 1 /\ SumSeq(Spacings(rings)) > 0
             THEN IF CVBelow(Spacings(rings), 1, 5)
                  THEN base_age
                  ELSE Max(1, base_age + randint)
             ELSE Max(1, base_age)

estimate_age_from_rings(rings, measurements, randint) ==
    IF rings = <<>> THEN SizeFallbackAge(measurements)
    ELSE LET base_age == Len(rings)
         IN  IF Len(rings) > 1 /\ SumSeq(Spacings(rings)) > 0
             THEN IF SpacingConsistent(Spacings(rings))
                  THEN base_age
                  ELSE Max(1, base_age + randint)
             ELSE Max(1, base_age)

(***************************************************************************)
(* analyze_growth_patterns.                                                *)
(***************************************************************************)
InsufficientData ==
    [growth_pattern |-> "insufficient_data", average_ring_spacing |-> 0,
     growth_rate |-> "unknown", growth_consistency |-> 0]

\* spacing_std / avg_spacing divides the int 0 by the float 0.0 when the
\* only spacing is 0 (two rings of one radius): ZeroDivisionError.  With
\* more spacings spacing_std is a numpy float and the quotient is nan.
GrowthAnalysisRaises(rings) ==
    Len(rings) = 2 /\ SumSeq(Spacings(rings)) = 0

GrowthConsistent_Loose(spacings) ==
    SumSeq(spacings) > 0 /\ CVBelow(spacings, 1, 2)

\* spacing_std / avg_spacing < 0.2; nan compares False.
GrowthConsistent(spacings) ==
    SumSeq(spacings) > 0 /\ CVBelow(spacings, 1, 5)

GrowthPattern(spacings) ==
    IF GrowthConsistent(spacings) THEN "consistent"
    ELSE IF 2 * spacings[Len(spacings)] > 3 * spacings[1] THEN "accelerating"
    ELSE IF 10 * spacings[Len(spacings)] < 7 * spacings[1] THEN "decelerating"
    ELSE "variable"

GrowthRate(spacings) ==
    IF SumSeq(spacings) > 15 * Len(spacings) THEN "fast"
    ELSE IF SumSeq(spacings) > 8 * Len(spacings) THEN "moderate"
    ELSE "slow"

\* round((1 - spacing_std / avg_spacing) * 100, 2) if avg_spacing > 0 else 0,
\* in hundredths.
GrowthConsistency(spacings) ==
    IF SumSeq(spacings) > 0 THEN 10000 - CVHundredths(spacings) ELSE 0

\* round(avg_spacing, 2) in hundredths, avg_spacing = sum(spacings) / len(spacings).
AverageSpacing_IntegerDivision(spacings) == 100 * (SumSeq(spacings) \div Len(spacings))

AverageSpacing(spacings) == RoundDiv(100 * SumSeq(spacings), Len(spacings))

\* The record analyze_growth_patterns returns when it does not raise;
\* average_ring_spacing and growth_consistency in hundredths.
analyze_growth_patterns(rings, measurements) ==
    IF Len(rings) < 2 THEN InsufficientData
    ELSE LET spacings == Spacings(rings)
         IN  [growth_pattern |-> GrowthPattern(spacings),
              average_ring_spacing |-> AverageSpacing(spacings),
              growth_rate |-> GrowthRate(spacings),
              growth_consistency |-> GrowthConsistency(spacings),
              ring_spacings |-> spacings]

(***************************************************************************)
(* calculate_confidence.  image_shape is <<height, width>>.                *)
(***************************************************************************)
ResolutionTerm(image_shape) ==
    IF image_shape[1] > 500 /\ image_shape[2] > 500 THEN 20
    ELSE IF image_shape[1] > 200 /\ image_shape[2] > 200 THEN 10
    ELSE 0

RingCountTerm_Uncapped(rings) == IF Len(rings) > 0 THEN Len(rings) * 5 ELSE 0

RingCountTerm(rings) == IF Len(rings) > 0 THEN Min(30, Len(rings) * 5) ELSE 0

RingOrderTerm_SingleRingCounts(rings) ==
    IF Len(rings) > 0 /\ \A i \in 1..(Len(rings) - 1) : rings[i].radius < rings[i + 1].radius
    THEN 20 ELSE 0

RingOrderTerm_NonStrict(rings) ==
    IF Len(rings) > 1 /\ \A i \in 1..(Len(rings) - 1) : rings[i].radius <= rings[i + 1].radius
    THEN 20 ELSE 0

RingOrderTerm(rings) ==
    IF Len(rings) > 1 /\ \A i \in 1..(Len(rings) - 1) : rings[i].radius < rings[i + 1].radius
    THEN 20 ELSE 0

AreaTerm_Large(measurements) == IF measurements.area > 100000 THEN 25 ELSE 0

AreaTerm(measurements) == IF measurements.area > 100000 THEN 15 ELSE 0

CircularityTerm(measurements) ==
    IF 30 < measurements.circularity /\ measurements.circularity < 80 THEN 10 ELSE 0

calculate_confidence(rings, measurements, image_shape) ==
    Min(100, ResolutionTerm(image_shape) + RingCountTerm(rings) + RingOrderTerm(rings)
             + AreaTerm(measurements) + CircularityTerm(measurements))

(***************************************************************************)
(* generate_recommendations.                                               *)
(***************************************************************************)
generate_recommendations_FirstOnly(rings, measurements, confidence_score) ==
    IF confidence_score < 50
    THEN <<"Low confidence analysis. Consider using higher resolution images.">>
    ELSE IF Len(rings) < 3
    THEN <<"Few growth rings detected. Ensure image shows clear otolith cross-section.">>
    ELSE IF measurements.circularity < 30
    THEN <<"Irregular otolith shape detected. Verify proper sectioning technique.">>
    ELSE IF measurements.area < 50000
    THEN <<"Small otolith detected. Consider higher magnification for better ring visibility.">>
    ELSE <<"Good quality analysis. Results appear reliable.">>

generate_recommendations(rings, measurements, confidence_score) ==
    LET recommendations ==
            (IF confidence_score < 50 THEN <<"Low confidence analysis. Consider using higher resolution images.">> ELSE <<>>)
         \o (IF Len(rings) < 3 THEN <<"Few growth rings detected. Ensure image shows clear otolith cross-section.">> ELSE <<>>)
         \o (IF measurements.circularity < 30 THEN <<"Irregular otolith shape detected. Verify proper sectioning technique.">> ELSE <<>>)
         \o (IF measurements.area < 50000 THEN <<"Small otolith detected. Consider higher magnification for better ring visibility.">> ELSE <<>>)
    IN  IF recommendations = <<>>
        THEN <<"Good quality analysis. Results appear reliable.">>
        ELSE recommendations

(***************************************************************************)
(* Inputs: the uploads the model posts.                                    *)
(***************************************************************************)
\* What HoughCircles may answer: up to MaxRings circles in the order of
\* their votes, radii in MinRadius..MaxRadius, centres MinDist apart.
CircleLists ==
    UNION {{[i \in 1..n |-> [x |-> MinDist * i, y |-> MinDist * i, r |-> radii[i]]] :
                radii \in [1..n -> MinRadius..MaxRadius]} : n \in 0..MaxRings}

TinyContour ==
    [npoints |-> 4, area |-> 8, perimeter |-> 12, width |-> 0, height |-> 0,
     center_x |-> 0, center_y |-> 0, angle |-> 0]

SliverContour ==
    [npoints |-> 12, area |-> 450, perimeter |-> 270, width |-> 6, height |-> 130,
     center_x |-> 70, center_y |-> 75, angle |-> 90]

OtolithContour ==
    [npoints |-> 40, area |-> 2000, perimeter |-> 200, width |-> 80, height |-> 40,
     center_x |-> 70, center_y |-> 75, angle |-> 0]

\* What findContours may answer.
ContourLists ==
    {<<>>, <<TinyContour>>, <<SliverContour>>, <<SliverContour, OtolithContour>>}

\* <<height, width>> of the decoded images.
Shapes == {<<150, 180>>, <<300, 400>>, <<600, 800>>}

\* Buffers cv2.imdecode answers None for, or raises on (the empty buffer).
UndecodableImages ==
    {[decode |-> d, shape |-> <<0, 0>>, hough_raises |-> FALSE, circles |-> <<>>,
      contour_raises |-> FALSE, contours |-> <<>>] : d \in {"none", "raise"}}

DecodableImages ==
    {[decode |-> "ok", shape |-> sh, hough_raises |-> h[1], circles |-> h[2],
      contour_raises |-> c[1], contours |-> c[2]] :
        sh \in Shapes,
        h \in {<<TRUE, <<>> >>} \cup ({FALSE} \X CircleLists),
        c \in {<<TRUE, <<>> >>} \cup ({FALSE} \X ContourLists)}

Images == UndecodableImages \cup DecodableImages

\* A few images for the requests that never reach the stages.
SampleImages ==
    UndecodableImages \cup
    {im \in DecodableImages :
        /\ im.shape = <<300, 400>>
        /\ ~im.hough_raises /\ Len(im.circles) = MaxRings
        /\ \A i \in 1..Len(im.circles) : im.circles[i].r = MinRadius
        /\ ~im.contour_raises /\ Len(im.contours) = 2}

\* file.content_type; "" stands for a missing content type (None).
ImageContentTypes == {"image/png"}

OtherContentTypes == {"", "text/plain"}

IsImageContentType(content_type) == content_type \in ImageContentTypes

Uploads ==
    {[filename |-> "otolith.png", content_type |-> ct, size |-> 2048, image |-> im] :
        ct \in ImageContentTypes \cup OtherContentTypes, im \in Images}

(***************************************************************************)
(* State.                                                                  *)
(***************************************************************************)
VARIABLES
    upload,            \* the file posted to /api/otolith/analyze
    libs,              \* whether "import cv2" and "from PIL import Image" succeed
    pc,                \* where the handler and the pipeline it calls stand
    exc,               \* the exception raised in analyze_otolith_image, or "none"
    rings,             \* local of analyze_otolith_image
    measurements,      \* local of analyze_otolith_image
    estimated_age,     \* local of analyze_otolith_image
    growth_analysis,   \* local of analyze_otolith_image
    confidence_score,  \* local of analyze_otolith_image
    result,            \* what analyze_otolith_image returns to the handler
    failed,            \* history: the stages that raised in this call
    received,          \* history: the ring list each stage was called with
    trace,             \* history: the stages run in this call, in order
    calls,             \* history: one record for each finished call of the pipeline
    responses,         \* history: one record for each answered request
    jobs,              \* the requests the event loop serves concurrently
    seed,              \* the values the module-level generator of random will return
    drawn,             \* how many of them random.randint has returned so far
    active_connections,  \* manager.active_connections
    client,            \* each websocket's client: "open" or "gone"
    endpoint,          \* each websocket's websocket_endpoint coroutine
    broadcasts,        \* the manager.broadcast tasks
    remove_failed      \* history: the websockets list.remove raised ValueError for

vars == <<upload, libs, pc, exc, rings, measurements, estimated_age, growth_analysis,
          confidence_score, result, failed, received, trace, calls, responses,
          jobs, seed, drawn, active_connections, client, endpoint, broadcasts,
          remove_failed>>

\* The state of the websocket manager and of its coroutines.
sockets == <<active_connections, client, endpoint, broadcasts, remove_failed>>

\* The state of the event loop and of the random module.
host == <<jobs, seed, drawn, sockets>>

\* manager = ConnectionManager(): no connection, no task yet.
InitSockets ==
    /\ active_connections = <<>>
    /\ client = [w \in 1..NumSockets |-> "open"]
    /\ endpoint = [w \in 1..NumSockets |-> "none"]
    /\ broadcasts = [b \in 1..NumBroadcasts |->
                        [pc |-> "idle", snapshot |-> <<>>, next |-> 1, to_remove |-> <<>>]]
    /\ remove_failed = {}

locals == <<rings, measurements, estimated_age, growth_analysis, confidence_score>>

NoResult == [unset |-> TRUE]

NothingReceived == [age |-> <<>>, growth |-> <<>>, confidence |-> <<>>]

Init ==
    /\ \/ libs = TRUE /\ upload \in {u \in Uploads : IsImageContentType(u.content_type)}
       \/ libs \in BOOLEAN /\ upload \in {u \in Uploads : u.image \in SampleImages}
    /\ pc = "idle"
    /\ exc = "none"
    /\ rings = <<>>
    /\ measurements = ZeroMeasurements
    /\ estimated_age = 0
    /\ growth_analysis = InsufficientData
    /\ confidence_score = 0
    /\ result = NoResult
    /\ failed = {}
    /\ received = NothingReceived
    /\ trace = <<>>
    /\ calls = <<>>
    /\ responses = <<>>
    /\ jobs = <<>>
    /\ seed = <<>>
    /\ drawn = 0
    /\ InitSockets

(***************************************************************************)
(* The values analyze_otolith_image returns.                               *)
(***************************************************************************)
\* Mutant of InvalidImageResult: the score is left out of the record.
InvalidImageResult_NoScore == [error |-> "Invalid image format"]

\* return {'error': 'Invalid image format', 'analysis_score': 0.0}
InvalidImageResult == [error |-> "Invalid image format", analysis_score |-> 0]

\* The except ImportError clause.
LibrariesMissingResult ==
    [error |-> "Image processing libraries not available. Install opencv-python and Pillow.",
     analysis_score |-> 0, estimated_age |-> 0, confidence_score |-> 0]

\* str(e) behind 'Otolith analysis failed: '.
FailureMessage(e) ==
    IF e = "ZeroDivisionError" THEN "Otolith analysis failed: float division by zero"
    ELSE "Otolith analysis failed: OpenCV error"

\* The except Exception clause.
AnalysisFailedResult(e) ==
    [error |-> FailureMessage(e), analysis_score |-> 0, estimated_age |-> 0,
     confidence_score |-> 0]

\* The except clause of analyze_otolith_image that handles e; every exception
\* the stages raise derives from Exception.
ExceptClause_NoImportClause(e) == "Exception"

ExceptClause(e) == IF e = "ImportError" THEN "ImportError" ELSE "Exception"

\* The record of the success path; analysis_score in hundredths:
\* round(min(100, confidence_score * 1.2), 2).
SuccessResult(filename, shape, age, rs, ms, growth, confidence) ==
    [filename |-> filename,
     image_dimensions |-> [width |-> shape[2], height |-> shape[1]],
     estimated_age |-> age,
     growth_rings |-> [count |-> Len(rs), rings_detected |-> rs,
                       ring_spacing |-> growth.average_ring_spacing],
     measurements |-> ms,
     growth_analysis |-> growth,
     confidence_score |-> confidence,
     analysis_score |-> Min(10000, confidence * 120),
     recommendations |-> generate_recommendations(rs, ms, confidence)]

(***************************************************************************)
(* The handler of POST /api/otolith/analyze.                               *)
(***************************************************************************)
\* The handler's except Exception clause: raise HTTPException(500, ...).
HandlerFailure(detail) == [status |-> 500, detail |-> detail, forwarded |-> FALSE]

\* return JSONResponse(content={"status": "success", ...}) for the upload file.
SuccessResponse(file, analysis_result) ==
    [status |-> 200,
     content |-> [status |-> "success", analysis |-> analysis_result,
                  file_info |-> [filename |-> file.filename, size |-> file.size,
                                 type |-> file.content_type]],
     forwarded |-> TRUE]

HandlerSuccess(analysis_result) == SuccessResponse(upload, analysis_result)

\* OtolithAnalyzer.analyze_otolith_image as one function: the record it
\* returns for the image the buffer holds, available saying whether the
\* imports succeed and randint being the value random.randint(-1, 1)
\* returns if estimate_age_from_rings draws one.
analyze_otolith_image(image, filename, available, randint) ==
    IF ~available THEN LibrariesMissingResult
    ELSE IF image.decode = "raise" THEN AnalysisFailedResult("cv2.error")
    ELSE IF image.decode = "none" THEN InvalidImageResult
    ELSE LET rs == detect_growth_rings(image)
             ms == calculate_otolith_measurements(image)
             age == estimate_age_from_rings(rs, ms, randint)
         IN  IF GrowthAnalysisRaises(rs) THEN AnalysisFailedResult("ZeroDivisionError")
             ELSE SuccessResult(filename, image.shape, age, rs, ms,
                                analyze_growth_patterns(rs, ms),
                                calculate_confidence(rs, ms, image.shape))

\* The call reaches random.randint and advances the generator of the
\* random module.
DrawsRandom(image, available) ==
    /\ available
    /\ image.decode = "ok"
    /\ AgeJittered(detect_growth_rings(image))

ResetLocals ==
    /\ rings' = <<>>
    /\ measurements' = ZeroMeasurements
    /\ estimated_age' = 0
    /\ growth_analysis' = InsufficientData
    /\ confidence_score' = 0
    /\ exc' = "none"
    /\ result' = NoResult
    /\ failed' = {}
    /\ received' = NothingReceived
    /\ trace' = <<>>

\* A client posts the upload.
ReceiveRequest ==
    /\ pc = "idle"
    /\ Len(responses) < MaxCalls
    /\ pc' = "validate"
    /\ UNCHANGED <<host, upload, libs, exc, locals, result, failed, received, trace, calls,
                   responses>>

\* The content type check.  The HTTPException(400) it raises is raised inside
\* the handler's try block, whose except Exception clause catches it and
\* raises HTTPException(500) in its place.  Otherwise the handler reads the
\* file and calls the pipeline.
ValidateContentType ==
    /\ pc = "validate"
    /\ IF ~IsImageContentType(upload.content_type)
       THEN /\ responses' = Append(responses,
                   HandlerFailure("Otolith analysis failed: 400: File must be an image"))
            /\ pc' = "idle"
       ELSE /\ pc' = "import"
            /\ UNCHANGED responses
    /\ UNCHANGED <<host, upload, libs, exc, locals, result, failed, received, trace, calls>>

(***************************************************************************)
(* OtolithAnalyzer.analyze_otolith_image, stage by stage.                  *)
(***************************************************************************)
\* import cv2; from PIL import Image; import base64
ImportLibraries ==
    /\ pc = "import"
    /\ IF libs
       THEN pc' = "decode" /\ UNCHANGED <<exc, failed>>
       ELSE pc' = "except" /\ exc' = "ImportError" /\ failed' = failed \cup {"import"}
    /\ UNCHANGED <<host, upload, libs, locals, result, received, trace, calls, responses>>

DecodeImage_NoShortCircuit ==
    /\ pc = "decode"
    /\ trace' = Append(trace, "decode")
    /\ IF upload.image.decode = "raise"
       THEN /\ pc' = "except" /\ exc' = "cv2.error"
            /\ failed' = failed \cup {"decode"}
            /\ UNCHANGED result
       ELSE /\ pc' = "detect"
            /\ failed' = IF upload.image.decode = "none" THEN failed \cup {"decode"}
                         ELSE failed
            /\ UNCHANGED <<exc, result>>
    /\ UNCHANGED <<host, upload, libs, locals, received, calls, responses>>

\* np.frombuffer, cv2.imdecode, the None check, cvtColor and CLAHE.
DecodeImage ==
    /\ pc = "decode"
    /\ trace' = Append(trace, "decode")
    /\ IF upload.image.decode = "raise"
       THEN /\ pc' = "except" /\ exc' = "cv2.error"
            /\ failed' = failed \cup {"decode"}
            /\ UNCHANGED result
       ELSE IF upload.image.decode = "none"
       THEN /\ pc' = "return" /\ result' = InvalidImageResult
            /\ failed' = failed \cup {"decode"}
            /\ UNCHANGED exc
       ELSE /\ pc' = "detect"
            /\ UNCHANGED <<exc, result, failed>>
    /\ UNCHANGED <<host, upload, libs, locals, received, calls, responses>>

\* rings = OtolithAnalyzer.detect_growth_rings(enhanced)
DetectRings ==
    /\ pc = "detect"
    /\ trace' = Append(trace, "detect")
    /\ rings' = detect_growth_rings(upload.image)
    /\ failed' = IF upload.image.hough_raises THEN failed \cup {"detect"} ELSE failed
    /\ pc' = "measure"
    /\ UNCHANGED <<host, upload, libs, exc, measurements, estimated_age, growth_analysis,
                   confidence_score, result, received, calls, responses>>

\* measurements = OtolithAnalyzer.calculate_otolith_measurements(gray)
MeasureOutline ==
    /\ pc = "measure"
    /\ trace' = Append(trace, "measure")
    /\ measurements' = calculate_otolith_measurements(upload.image)
    /\ failed' = IF upload.image.contour_raises THEN failed \cup {"measure"} ELSE failed
    /\ pc' = "age"
    /\ UNCHANGED <<host, upload, libs, exc, rings, estimated_age, growth_analysis,
                   confidence_score, result, received, calls, responses>>

\* estimated_age = OtolithAnalyzer.estimate_age_from_rings(rings, measurements)
EstimateAge ==
    /\ pc = "age"
    /\ trace' = Append(trace, "age")
    /\ \E randint \in -1..1 :
           estimated_age' = estimate_age_from_rings(rings, measurements, randint)
    /\ received' = [received EXCEPT !.age = rings]
    /\ pc' = "growth"
    /\ UNCHANGED <<host, upload, libs, exc, rings, measurements, growth_analysis,
                   confidence_score, result, failed, calls, responses>>

\* growth_analysis = OtolithAnalyzer.analyze_growth_patterns(rings, measurements)
AnalyzeGrowth ==
    /\ pc = "growth"
    /\ trace' = Append(trace, "growth")
    /\ received' = [received EXCEPT !.growth = rings]
    /\ IF GrowthAnalysisRaises(rings)
       THEN /\ pc' = "except" /\ exc' = "ZeroDivisionError"
            /\ failed' = failed \cup {"growth"}
            /\ UNCHANGED growth_analysis
       ELSE /\ growth_analysis' = analyze_growth_patterns(rings, measurements)
            /\ pc' = "confidence"
            /\ UNCHANGED <<exc, failed>>
    /\ UNCHANGED <<host, upload, libs, rings, measurements, estimated_age, confidence_score,
                   result, calls, responses>>

\* confidence_score = OtolithAnalyzer.calculate_confidence(rings, measurements, image.shape)
ScoreConfidence ==
    /\ pc = "confidence"
    /\ trace' = Append(trace, "confidence")
    /\ received' = [received EXCEPT !.confidence = rings]
    /\ confidence_score' = calculate_confidence(rings, measurements, upload.image.shape)
    /\ pc' = "assemble"
    /\ UNCHANGED <<host, upload, libs, exc, rings, measurements, estimated_age,
                   growth_analysis, result, failed, calls, responses>>

\* The return statement of the success path, generate_recommendations included.
AssembleResult ==
    /\ pc = "assemble"
    /\ trace' = Append(trace, "recommend")
    /\ result' = SuccessResult(upload.filename, upload.image.shape, estimated_age, rings,
                               measurements, growth_analysis, confidence_score)
    /\ pc' = "return"
    /\ UNCHANGED <<host, upload, libs, exc, locals, failed, received, calls, responses>>

HandleException_Retry ==
    /\ pc = "except"
    /\ IF ExceptClause(exc) = "ImportError"
       THEN /\ result' = LibrariesMissingResult
            /\ pc' = "return"
            /\ UNCHANGED <<exc, locals, failed, received, trace, calls, responses>>
       ELSE /\ pc' = "decode"
            /\ exc' = "none"
            /\ UNCHANGED <<result, locals, failed, received, trace, calls, responses>>
    /\ UNCHANGED <<host, upload, libs>>

\* The except clauses of analyze_otolith_image.  An exception no clause
\* handles leaves the call and reaches the handler's except Exception clause.
HandleException ==
    /\ pc = "except"
    /\ IF ExceptClause(exc) = "ImportError"
       THEN /\ result' = LibrariesMissingResult
            /\ pc' = "return"
            /\ UNCHANGED <<exc, locals, failed, received, trace, calls, responses>>
       ELSE IF ExceptClause(exc) = "Exception"
       THEN /\ result' = AnalysisFailedResult(exc)
            /\ pc' = "return"
            /\ UNCHANGED <<exc, locals, failed, received, trace, calls, responses>>
       ELSE /\ calls' = Append(calls, [returned |-> FALSE, result |-> NoResult,
                                       failed |-> failed, received |-> received,
                                       stages |-> trace])
            /\ responses' = Append(responses, HandlerFailure(FailureMessage(exc)))
            /\ pc' = "idle"
            /\ ResetLocals
    /\ UNCHANGED <<host, upload, libs>>

\* analyze_otolith_image returns and the handler wraps what it got.
ReturnResult ==
    /\ pc = "return"
    /\ calls' = Append(calls, [returned |-> TRUE, result |-> result,
                               failed |-> failed, received |-> received,
                               stages |-> trace])
    /\ responses' = Append(responses, HandlerSuccess(result))
    /\ pc' = "idle"
    /\ ResetLocals
    /\ UNCHANGED <<host, upload, libs>>

Next ==
    \/ ReceiveRequest
    \/ ValidateContentType
    \/ ImportLibraries
    \/ DecodeImage
    \/ DetectRings
    \/ MeasureOutline
    \/ EstimateAge
    \/ AnalyzeGrowth
    \/ ScoreConfidence
    \/ AssembleResult
    \/ HandleException
    \/ ReturnResult

Spec == Init /\ [][Next]_vars

(***************************************************************************)
(* The calls again, with the steps of the code always taken: the pipeline  *)
(* is synchronous code without blocking I/O, so a call under way goes on.  *)
(* Its uploads are one for each way a call can end.                        *)
(***************************************************************************)
LiveImages ==
    UndecodableImages \cup
    {[decode |-> "ok", shape |-> <<600, 800>>, hough_raises |-> h, circles |-> cs,
      contour_raises |-> h, contours |-> <<OtolithContour>>] :
          h \in BOOLEAN,
          cs \in {<<>>,
                  <<[x |-> 10, y |-> 10, r |-> 5], [x |-> 20, y |-> 20, r |-> 5]>>,
                  <<[x |-> 10, y |-> 10, r |-> 5], [x |-> 20, y |-> 20, r |-> 6],
                    [x |-> 30, y |-> 30, r |-> 7]>>,
                  <<[x |-> 10, y |-> 10, r |-> 5], [x |-> 20, y |-> 20, r |-> 5],
                    [x |-> 30, y |-> 30, r |-> 7]>>}}

InitLive ==
    /\ libs \in BOOLEAN
    /\ upload \in {[filename |-> "otolith.png", content_type |-> "image/png",
                     size |-> 2048, image |-> im] : im \in LiveImages}
    /\ pc = "idle"
    /\ exc = "none"
    /\ rings = <<>>
    /\ measurements = ZeroMeasurements
    /\ estimated_age = 0
    /\ growth_analysis = InsufficientData
    /\ confidence_score = 0
    /\ result = NoResult
    /\ failed = {}
    /\ received = NothingReceived
    /\ trace = <<>>
    /\ calls = <<>>
    /\ responses = <<>>
    /\ jobs = <<>>
    /\ seed = <<>>
    /\ drawn = 0
    /\ InitSockets

SpecLive == InitLive /\ [][Next]_vars /\ WF_vars(Next)

(***************************************************************************)
(* The stages alone: one call of analyze_otolith_image on a decoded image, *)
(* from detect_growth_rings to its return statement, over more rings and   *)
(* more outlines than the requests of Spec carry.                          *)
(***************************************************************************)
\* What HoughCircles may answer: up to WideMaxRings circles in any order.
WideCircleLists ==
    UNION {{[i \in 1..n |-> [x |-> MinDist * i, y |-> MinDist * i, r |-> radii[i]]] :
                radii \in [1..n -> MinRadius..WideMaxRadius]} : n \in 0..WideMaxRings}

\* Outlines of area and perimeter in pixels no rounder than a disc
\* (4 * pi * area <= perimeter ^ 2), with the ellipse fitEllipse fits.
OutlineContours ==
    {[npoints |-> 40, area |-> a, perimeter |-> p, width |-> e[1], height |-> e[2],
      center_x |-> 70, center_y |-> 75, angle |-> 0] :
        a \in {450, 500, 800, 955, 1000, 1432, 1500, 2000},
        p \in {120, 150, 200, 270},
        e \in {<<80, 40>>, <<6, 130>>}}

RoundEnough(c) == 13 * c.area <= c.perimeter * c.perimeter

\* Circles at centres MinDist apart with the given radii.
CirclesOfRadii(radii) ==
    [i \in 1..Len(radii) |-> [x |-> MinDist * i, y |-> MinDist * i, r |-> radii[i]]]

\* Ring lists beyond WideCircleLists: wider spacings, and more rings than
\* the ring count term of the confidence counts.
LongCircleLists ==
    {CirclesOfRadii(radii) : radii \in {<<5, 8, 12>>, <<5, 6, 7, 8, 9, 10>>,
                                         <<5, 6, 7, 8, 9, 10, 11>>}}

\* <<height, width>> of the decoded images, on both sides of 200 and 500.
AnalysisShapes ==
    {<<150, 180>>, <<200, 200>>, <<201, 201>>, <<300, 400>>, <<500, 500>>, <<500, 800>>,
     <<501, 501>>, <<600, 800>>}

\* What findContours may answer for the images of AnalysisImages.
OutlineContourLists ==
    {<<>>, <<TinyContour>>} \cup {<<c>> : c \in {c \in OutlineContours : RoundEnough(c)}}

AnalysisImages ==
    {[decode |-> "ok", shape |-> <<600, 800>>, hough_raises |-> FALSE, circles |-> cs,
      contour_raises |-> FALSE, contours |-> <<OtolithContour>>] :
          cs \in WideCircleLists \cup LongCircleLists}
    \cup
    {[decode |-> "ok", shape |-> sh, hough_raises |-> FALSE,
      circles |-> CirclesOfRadii(radii),
      contour_raises |-> FALSE, contours |-> cl] :
          sh \in AnalysisShapes,
          radii \in {<<>>, <<7>>, <<5, 8>>, <<5, 6, 7>>},
          cl \in OutlineContourLists}

\* The state of the call after imdecode, cvtColor and CLAHE.
InitAnalysis ==
    /\ libs = TRUE
    /\ upload \in {[filename |-> "otolith.png", content_type |-> "image/png",
                     size |-> 2048, image |-> im] : im \in AnalysisImages}
    /\ pc = "detect"
    /\ exc = "none"
    /\ rings = <<>>
    /\ measurements = ZeroMeasurements
    /\ estimated_age = 0
    /\ growth_analysis = InsufficientData
    /\ confidence_score = 0
    /\ result = NoResult
    /\ failed = {}
    /\ received = NothingReceived
    /\ trace = <<"decode">>
    /\ calls = <<>>
    /\ responses = <<>>
    /\ jobs = <<>>
    /\ seed = <<>>
    /\ drawn = 0
    /\ InitSockets

NextAnalysis ==
    \/ DetectRings
    \/ MeasureOutline
    \/ EstimateAge
    \/ AnalyzeGrowth
    \/ ScoreConfidence
    \/ AssembleResult
    \/ HandleException

SpecAnalysis == InitAnalysis /\ [][NextAnalysis]_vars

(***************************************************************************)
(* Requests served at the same time.  The handler is a coroutine of the    *)
(* event loop: it runs alone from one await to the next, and its one await *)
(* is file.read().  random.randint draws from the generator of the random  *)
(* module, one object for the whole process: seed holds the values it will *)
(* return, in order, and drawn how many it has returned.                   *)
(***************************************************************************)
ConcurrentImages ==
    {[decode |-> "none", shape |-> <<0, 0>>, hough_raises |-> FALSE, circles |-> <<>>,
      contour_raises |-> FALSE, contours |-> <<>>]}
    \cup
    {[decode |-> "ok", shape |-> <<600, 800>>, hough_raises |-> FALSE,
      circles |-> [i \in 1..Len(radii) |->
                      [x |-> MinDist * i, y |-> MinDist * i, r |-> radii[i]]],
      contour_raises |-> FALSE, contours |-> <<OtolithContour>>] :
          radii \in {<<5, 5>>, <<5, 6, 7>>, <<5, 5, 7>>}}

ConcurrentUploads ==
    {[filename |-> "otolith.png", content_type |-> "image/png", size |-> 2048,
      image |-> im] : im \in ConcurrentImages}
    \cup
    {[filename |-> "notes.txt", content_type |-> "text/plain", size |-> 2048,
      image |-> CHOOSE im \in ConcurrentImages : im.decode = "none"]}

InitConcurrent ==
    /\ jobs \in [1..NumJobs -> {[pc |-> "start", file |-> u, response |-> NoResult] :
                                    u \in ConcurrentUploads}]
    /\ seed \in [1..NumJobs -> -1..1]
    /\ drawn = 0
    /\ InitSockets
    /\ libs = TRUE
    /\ upload = jobs[1].file
    /\ pc = "idle"
    /\ exc = "none"
    /\ rings = <<>>
    /\ measurements = ZeroMeasurements
    /\ estimated_age = 0
    /\ growth_analysis = InsufficientData
    /\ confidence_score = 0
    /\ result = NoResult
    /\ failed = {}
    /\ received = NothingReceived
    /\ trace = <<>>
    /\ calls = <<>>
    /\ responses = <<>>

\* The handler of request j up to its await: the content type check.
JobValidate(j) ==
    /\ jobs[j].pc = "start"
    /\ IF ~IsImageContentType(jobs[j].file.content_type)
       THEN jobs' = [jobs EXCEPT ![j].pc = "done",
                                 ![j].response = HandlerFailure(
                                     "Otolith analysis failed: 400: File must be an image")]
       ELSE jobs' = [jobs EXCEPT ![j].pc = "reading"]
    /\ UNCHANGED <<seed, drawn, sockets, upload, libs, pc, exc, locals, result, failed,
                   received, trace, calls, responses>>

\* file.read() of request j completes; the handler runs the analysis to
\* its end and returns.
JobAnalyze(j) ==
    /\ jobs[j].pc = "reading"
    /\ LET file == jobs[j].file
           analysis_result == analyze_otolith_image(file.image, file.filename, libs,
                                                    seed[drawn + 1])
       IN  jobs' = [jobs EXCEPT ![j].pc = "done",
                                ![j].response = SuccessResponse(file, analysis_result)]
    /\ drawn' = IF DrawsRandom(jobs[j].file.image, libs) THEN drawn + 1 ELSE drawn
    /\ UNCHANGED <<seed, sockets, upload, libs, pc, exc, locals, result, failed,
                   received, trace, calls, responses>>

NextConcurrent ==
    \/ \E j \in 1..NumJobs : JobValidate(j)
    \/ \E j \in 1..NumJobs : JobAnalyze(j)

SpecConcurrent == InitConcurrent /\ [][NextConcurrent]_vars

(***************************************************************************)
(* The websocket manager.  websocket_endpoint and manager.broadcast are    *)
(* coroutines of one event loop: each runs alone from one await to the     *)
(* next.  A websocket whose client is gone raises in the await that sends  *)
(* to it or receives from it.                                              *)
(***************************************************************************)
Contains(list, w) == \E i \in 1..Len(list) : list[i] = w

\* list.remove(w) for a list that holds w: without its first occurrence.
RECURSIVE RemoveFirst(_, _)
RemoveFirst(list, w) ==
    IF list = <<>> THEN <<>>
    ELSE IF Head(list) = w THEN Tail(list)
    ELSE <<Head(list)>> \o RemoveFirst(Tail(list), w)

\* for c in to_remove: self.disconnect(c).  list.remove raises ValueError
\* for a websocket the list does not hold, which ends the loop: raised is
\* that websocket, if any.
RECURSIVE DisconnectAll(_, _)
DisconnectAll(list, to_remove) ==
    IF to_remove = <<>> THEN [connections |-> list, raised |-> {}]
    ELSE IF ~Contains(list, Head(to_remove))
    THEN [connections |-> list, raised |-> {Head(to_remove)}]
    ELSE DisconnectAll(RemoveFirst(list, Head(to_remove)), Tail(to_remove))

\* The variables of the otolith requests, which the websockets leave alone.
requests == <<upload, libs, pc, exc, locals, result, failed, received, trace, calls,
              responses, jobs, seed, drawn>>

InitWebsockets ==
    /\ InitSockets
    /\ libs = TRUE
    /\ upload = [filename |-> "otolith.png", content_type |-> "image/png", size |-> 2048,
                 image |-> CHOOSE im \in UndecodableImages : im.decode = "none"]
    /\ pc = "idle"
    /\ exc = "none"
    /\ rings = <<>>
    /\ measurements = ZeroMeasurements
    /\ estimated_age = 0
    /\ growth_analysis = InsufficientData
    /\ confidence_score = 0
    /\ result = NoResult
    /\ failed = {}
    /\ received = NothingReceived
    /\ trace = <<>>
    /\ calls = <<>>
    /\ responses = <<>>
    /\ jobs = <<>>
    /\ seed = <<>>
    /\ drawn = 0

\* await manager.connect(websocket): accept, then append; the endpoint goes
\* on to its welcome message and its receive loop.
Connect(w) ==
    /\ endpoint[w] = "none"
    /\ client[w] = "open"
    /\ active_connections' = Append(active_connections, w)
    /\ endpoint' = [endpoint EXCEPT ![w] = "serving"]
    /\ UNCHANGED <<requests, client, broadcasts, remove_failed>>

\* The client of websocket w closes the connection or is lost.
ClientLeaves(w) ==
    /\ client[w] = "open"
    /\ client' = [client EXCEPT ![w] = "gone"]
    /\ UNCHANGED <<requests, active_connections, endpoint, broadcasts, remove_failed>>

\* The await of the endpoint raises WebSocketDisconnect (or another
\* exception) and the except clause calls manager.disconnect(websocket).
EndpointDisconnect(w) ==
    /\ endpoint[w] = "serving"
    /\ client[w] = "gone"
    /\ IF Contains(active_connections, w)
       THEN /\ active_connections' = RemoveFirst(active_connections, w)
            /\ endpoint' = [endpoint EXCEPT ![w] = "closed"]
            /\ UNCHANGED remove_failed
       ELSE /\ endpoint' = [endpoint EXCEPT ![w] = "crashed"]
            /\ remove_failed' = remove_failed \cup {w}
            /\ UNCHANGED active_connections
    /\ UNCHANGED <<requests, client, broadcasts>>

\* The task of manager.broadcast starts: to_remove = [] and the loop over
\* list(self.active_connections) up to its first await.
BroadcastStart(b) ==
    /\ broadcasts[b].pc = "idle"
    /\ broadcasts' = [broadcasts EXCEPT
           ![b] = [pc |-> IF active_connections = <<>> THEN "done" ELSE "sending",
                   snapshot |-> active_connections, next |-> 1, to_remove |-> <<>>]]
    /\ UNCHANGED <<requests, active_connections, client, endpoint, remove_failed>>

\* await connection.send_json(message) ends for the next connection of the
\* snapshot, with an exception if its client is gone; after the last one
\* the task removes the connections of to_remove, without another await.
BroadcastSend(b) ==
    /\ broadcasts[b].pc = "sending"
    /\ LET task == broadcasts[b]
           connection == task.snapshot[task.next]
           to_remove == IF client[connection] = "gone"
                        THEN Append(task.to_remove, connection)
                        ELSE task.to_remove
           removal == DisconnectAll(active_connections, to_remove)
       IN  IF task.next < Len(task.snapshot)
           THEN /\ broadcasts' = [broadcasts EXCEPT ![b].next = task.next + 1,
                                                    ![b].to_remove = to_remove]
                /\ UNCHANGED <<active_connections, remove_failed>>
           ELSE /\ broadcasts' = [broadcasts EXCEPT
                       ![b].next = task.next + 1,
                       ![b].to_remove = to_remove,
                       ![b].pc = IF removal.raised = {} THEN "done" ELSE "crashed"]
                /\ active_connections' = removal.connections
                /\ remove_failed' = remove_failed \cup removal.raised
    /\ UNCHANGED <<requests, client, endpoint>>

NextWebsockets ==
    \/ \E w \in 1..NumSockets : Connect(w)
    \/ \E w \in 1..NumSockets : ClientLeaves(w)
    \/ \E w \in 1..NumSockets : EndpointDisconnect(w)
    \/ \E b \in 1..NumBroadcasts : BroadcastStart(b)
    \/ \E b \in 1..NumBroadcasts : BroadcastSend(b)

SpecWebsockets == InitWebsockets /\ [][NextWebsockets]_vars

(***************************************************************************)
(* Properties.                                                             *)
(***************************************************************************)
\* The image of the upload was decoded: the libraries are there and
\* cv2.imdecode answered with an image.
Decoded == libs /\ upload.image.decode = "ok"

HasError(r) == "error" \in DOMAIN r /\ r.error # ""

Succeeded(c) == c.returned /\ "error" \notin DOMAIN c.result

SortedByRadius(rs) == \A i \in 1..(Len(rs) - 1) : rs[i].radius <= rs[i + 1].radius

\* C1: for every successfully decoded image, the result analyze_otolith_image
\* returns has estimated_age >= 1 (stated as the claim; the code violates it).
C1_AgeAtLeastOne ==
    \A i \in 1..Len(calls) :
        Decoded =>
            /\ calls[i].returned
            /\ "estimated_age" \in DOMAIN calls[i].result
            /\ calls[i].result.estimated_age >= 1

\* C2: every result analyze_otolith_image returns, on the success path and
\* on every error path, holds confidence_score and analysis_score, both in
\* [0,100] (stated as the claim; the code violates it).
C2_ScoresPresentInRange ==
    \A i \in 1..Len(calls) :
        calls[i].returned =>
            /\ "confidence_score" \in DOMAIN calls[i].result
            /\ "analysis_score" \in DOMAIN calls[i].result
            /\ calls[i].result.confidence_score \in 0..100
            /\ calls[i].result.analysis_score \in 0..10000

\* C3, as the spec states it: with no ring detected, estimated_age is
\* max(1, round(major_axis / 50)), rounding to nearest.
C3_FallbackAgeRounded ==
    \A i \in 1..Len(calls) :
        (Succeeded(calls[i]) /\ calls[i].result.growth_rings.count = 0) =>
            calls[i].result.estimated_age
                = Max(1, RoundDiv(calls[i].result.measurements.major_axis, 5000))

\* C3, amended: with no ring detected, estimated_age is max(1, floor(major_axis / 50)):
\* the quotient is truncated, so the age is 1 below 100 pixels and otherwise
\* the whole number of 50-pixel lengths the major axis holds.
C3_FallbackAgeTruncated ==
    \A i \in 1..Len(calls) :
        (Succeeded(calls[i]) /\ calls[i].result.growth_rings.count = 0) =>
            LET age == calls[i].result.estimated_age
                major_axis == calls[i].result.measurements.major_axis
            IN  /\ age >= 1
                /\ major_axis < 10000 => age = 1
                /\ major_axis >= 10000 =>
                       5000 * age <= major_axis /\ major_axis < 5000 * (age + 1)

\* Witness of C3: a ring-less result whose major axis of 80 pixels rounds to
\* 2 and truncates to 1.
C3_Witness ==
    \E i \in 1..Len(calls) :
        /\ Succeeded(calls[i])
        /\ calls[i].result.growth_rings.count = 0
        /\ calls[i].result.measurements.major_axis = 8000
        /\ calls[i].result.estimated_age = 1

\* C4: whenever a stage of the pipeline fails, the result carries a non-empty
\* error together with zero confidence_score and zero analysis_score (stated
\* as the claim; the code violates it).
C4_StageFailureReported ==
    \A i \in 1..Len(calls) :
        calls[i].failed # {} =>
            /\ calls[i].returned
            /\ HasError(calls[i].result)
            /\ "confidence_score" \in DOMAIN calls[i].result
            /\ calls[i].result.confidence_score = 0
            /\ "analysis_score" \in DOMAIN calls[i].result
            /\ calls[i].result.analysis_score = 0

\* C5: no exception leaves analyze_otolith_image, every call returns a
\* record, and the record has an error field whenever a failure occurred in
\* the call (stated as the claim; the code violates it).
C5_NoEscapeAndFailureInError ==
    \A i \in 1..Len(calls) :
        /\ calls[i].returned
        /\ calls[i].failed # {} => "error" \in DOMAIN calls[i].result

\* C6: for an undecodable byte buffer analyze_otolith_image returns a result
\* with a non-empty error and analysis_score 0.0, and no exception leaves
\* the call.
C6_UndecodableReported ==
    \A i \in 1..Len(calls) :
        upload.image.decode # "ok" =>
            /\ calls[i].returned
            /\ HasError(calls[i].result)
            /\ "analysis_score" \in DOMAIN calls[i].result
            /\ calls[i].result.analysis_score = 0

\* Witness of C6: with the libraries present, a call on a buffer imdecode
\* answers None for has returned the 'Invalid image format' record.
C6_Witness ==
    \E i \in 1..Len(calls) :
        /\ libs /\ upload.image.decode = "none"
        /\ calls[i].returned
        /\ calls[i].result.error = "Invalid image format"

\* C7: when the result of analyze_otolith_image carries an error field, the
\* handler answers with a 5xx status, not with the success envelope (stated
\* as the claim; the code violates it).
C7_PipelineErrorAnswered5xx ==
    \A i \in 1..Len(responses) :
        (responses[i].forwarded /\ i <= Len(calls) /\ calls[i].returned
            /\ "error" \in DOMAIN calls[i].result) =>
                responses[i].status \in 500..599

\* C8: an upload whose content type is missing or does not start with
\* 'image/' is answered with status 400, and its bytes never reach
\* analyze_otolith_image (stated as the claim; the code violates it).
C8_NonImageAnswered400 ==
    ~IsImageContentType(upload.content_type) =>
        /\ calls = <<>>
        /\ pc \in {"idle", "validate"}
        /\ \A i \in 1..Len(responses) :
               responses[i].status = 400 /\ ~responses[i].forwarded

\* C9: in every result that holds growth_rings, rings_detected is sorted
\* ascending by radius, and it is the list the age estimator, the growth
\* analyzer and the confidence scorer were called with; every list a stage
\* was called with is sorted.
C9_RingsSortedAndShared ==
    \A i \in 1..Len(calls) :
        /\ SortedByRadius(calls[i].received.age)
        /\ SortedByRadius(calls[i].received.growth)
        /\ SortedByRadius(calls[i].received.confidence)
        /\ "growth_rings" \in DOMAIN calls[i].result =>
               LET rs == calls[i].result.growth_rings.rings_detected
               IN  /\ SortedByRadius(rs)
                   /\ Len(rs) = Len(upload.image.circles)
                   /\ calls[i].received.age = rs
                   /\ calls[i].received.growth = rs
                   /\ calls[i].received.confidence = rs

\* Witness of C9: a result with its rings, for an image whose circles
\* HoughCircles answered with in descending order of radius.
C9_Witness ==
    \E i \in 1..Len(calls) :
        /\ "growth_rings" \in DOMAIN calls[i].result
        /\ calls[i].result.growth_rings.count >= 2
        /\ upload.image.circles[1].r > upload.image.circles[2].r

\* C10: two calls of analyze_otolith_image on the same buffer and filename
\* return the same record, except that estimated_age may differ when at
\* least two rings are detected and the coefficient of variation of their
\* spacings is at least 0.3.
C10_RepeatableButForJitter ==
    \A i \in 1..Len(calls) : \A j \in 1..Len(calls) :
        LET a == calls[i].result
            b == calls[j].result
        IN  /\ calls[i].returned /\ calls[j].returned
            /\ DOMAIN a = DOMAIN b
            /\ \A f \in DOMAIN a \ {"estimated_age"} : a[f] = b[f]
            /\ a # b =>
                   /\ "growth_rings" \in DOMAIN a
                   /\ a.growth_rings.count >= 2
                   /\ LET s == Spacings(a.growth_rings.rings_detected)
                          variance == Len(s) * SumSquares(s) - SumSeq(s) * SumSeq(s)
                      IN  SumSeq(s) > 0 /\ 100 * variance >= 9 * SumSeq(s) * SumSeq(s)

\* Witness of C10: two calls on one upload returned different ages.
C10_Witness ==
    \E i \in 1..Len(calls) : \E j \in 1..Len(calls) :
        /\ Succeeded(calls[i]) /\ Succeeded(calls[j])
        /\ calls[i].result.estimated_age # calls[j].result.estimated_age

StrictlyIncreasing(rs) == \A i \in 1..(Len(rs) - 1) : rs[i].radius < rs[i + 1].radius

GrowthAnalysisFields ==
    {"growth_pattern", "average_ring_spacing", "growth_rate", "growth_consistency",
     "ring_spacings"}

\* C14: every result without an error field has the whole shape of the
\* output contract, and its growth_analysis holds growth_pattern,
\* average_ring_spacing, growth_rate, growth_consistency and ring_spacings
\* whatever the ring count, 0 and 1 included (stated as the claim; the code
\* violates it).
C14_FullShapeForEveryRingCount ==
    \A i \in 1..Len(calls) :
        Succeeded(calls[i]) =>
            /\ DOMAIN calls[i].result =
                   {"filename", "image_dimensions", "estimated_age", "growth_rings",
                    "measurements", "growth_analysis", "confidence_score",
                    "analysis_score", "recommendations"}
            /\ DOMAIN calls[i].result.growth_analysis = GrowthAnalysisFields

\* C15: when the image-processing libraries cannot be imported,
\* analyze_otolith_image raises nothing and returns the record whose error
\* explains that the libraries are not available, with confidence_score 0
\* and analysis_score 0, and no stage of the pipeline runs.
C15_DegradedWithoutLibraries ==
    ~libs =>
        /\ trace = <<>>
        /\ \A i \in 1..Len(calls) :
               /\ calls[i].returned
               /\ calls[i].stages = <<>>
               /\ HasError(calls[i].result)
               /\ calls[i].result.error =
                      "Image processing libraries not available. Install opencv-python and Pillow."
               /\ calls[i].result.confidence_score = 0
               /\ calls[i].result.analysis_score = 0

\* Witness of C15: a call finished where the libraries are missing.
C15_Witness == ~libs /\ Len(calls) >= 1 /\ calls[1].returned

\* C19 as stated: the radii handed to the confidence scorer are strictly
\* increasing, so that its ordering check succeeds for every list of two or
\* more rings.
C19_RadiiStrictlyIncreasing ==
    \A i \in 1..Len(calls) :
        Len(calls[i].received.confidence) >= 2 =>
            /\ StrictlyIncreasing(calls[i].received.confidence)
            /\ RingOrderTerm(calls[i].received.confidence) = 20

\* C19, amended: the radii handed downstream are non-decreasing, rings may
\* share a radius, and the 20 points of the ordering check are part of the
\* returned confidence_score exactly when there are two or more rings with
\* strictly increasing radii.
C19_OrderBonusOnlyWhenStrict ==
    \A i \in 1..Len(calls) :
        /\ SortedByRadius(calls[i].received.confidence)
        /\ Succeeded(calls[i]) =>
               LET r == calls[i].result
                   rs == r.growth_rings.rings_detected
                   others == ResolutionTerm(upload.image.shape) + RingCountTerm(rs)
                             + AreaTerm(r.measurements) + CircularityTerm(r.measurements)
               IN  /\ rs = calls[i].received.confidence
                   /\ r.confidence_score - others =
                          (IF Len(rs) >= 2 /\ StrictlyIncreasing(rs) THEN 20 ELSE 0)

\* Witness of C19: a returned result whose three rings are sorted and two
\* of them share a radius.
C19_Witness ==
    \E i \in 1..Len(calls) :
        /\ Succeeded(calls[i])
        /\ calls[i].result.growth_rings.count = 3
        /\ ~StrictlyIncreasing(calls[i].result.growth_rings.rings_detected)

\* The stage has run in the current call.
Ran(stage) == \E i \in 1..Len(trace) : trace[i] = stage

\* The call under way has come to its return statement on the success path.
Returning == pc = "return" /\ "growth_analysis" \in DOMAIN result

Abs(n) == IF n < 0 THEN -n ELSE n

\* The consecutive radius differences radius[i] - radius[i-1] of a ring list.
Differences(rs) == [i \in 1..(Len(rs) - 1) |-> rs[i + 1].radius - rs[i].radius]

\* C12: for every ring list of at least two rings whose consecutive radius
\* differences are all equal and positive, estimated_age is the ring count
\* and growth_pattern is 'consistent'.
C12_EvenSpacingAgeIsCount ==
    Returning =>
        LET rs == result.growth_rings.rings_detected
        IN  (/\ Len(rs) >= 2
             /\ rs[2].radius - rs[1].radius > 0
             /\ \A i \in 1..(Len(rs) - 1) :
                    rs[i + 1].radius - rs[i].radius = rs[2].radius - rs[1].radius)
            => /\ result.estimated_age = Len(rs)
               /\ result.growth_analysis.growth_pattern = "consistent"

\* Witness of C12: a result for four rings one pixel of radius apart.
C12_Witness ==
    /\ Returning
    /\ result.growth_rings.count = 4
    /\ \A i \in 1..3 : result.growth_rings.rings_detected[i + 1].radius
                           - result.growth_rings.rings_detected[i].radius = 1

\* C13 as stated: average_ring_spacing is the arithmetic mean of the
\* consecutive radius differences, i.e. their count times it is their sum.
C13_AverageIsExactMean ==
    Returning =>
        LET d == Differences(result.growth_rings.rings_detected)
        IN  Len(d) >= 1 =>
                Len(d) * result.growth_analysis.average_ring_spacing = 100 * SumSeq(d)

\* C13, amended: average_ring_spacing is the arithmetic mean of the
\* consecutive radius differences rounded to two decimals: it is a whole
\* number of hundredths at most half a hundredth away from the mean.
C13_AverageIsRoundedMean ==
    Returning =>
        LET d == Differences(result.growth_rings.rings_detected)
        IN  Len(d) >= 1 =>
                2 * Abs(Len(d) * result.growth_analysis.average_ring_spacing
                        - 100 * SumSeq(d)) <= Len(d)

\* Witness of C13: a result for rings whose mean spacing has more than two
\* decimals (three differences whose sum is no multiple of 3).
C13_Witness ==
    /\ Returning
    /\ result.growth_rings.count = 4
    /\ SumSeq(Differences(result.growth_rings.rings_detected)) % 3 = 2

C17_AgeWithinOneOfCount ==
    (Ran("age") /\ Len(rings) >= 1) =>
        LET n == Len(rings)
            d == Differences(rings)
            sum == SumSeq(d)
            variance == Len(d) * SumSquares(d) - sum * sum
        IN  /\ n = 1 => estimated_age = 1
            /\ (n >= 2 /\ sum > 0 /\ 100 * variance < 9 * sum * sum) => estimated_age = n
            /\ estimated_age \in {Max(1, n - 1), n, n + 1}

\* Witness of C17: an age one above the ring count, for spacings whose
\* coefficient of variation is at least 0.3.
C17_Witness ==
    /\ Ran("age")
    /\ Len(rings) >= 2
    /\ estimated_age = Len(rings) + 1

\* C18: analyze_growth_patterns returns the insufficient_data record for
\* fewer than two rings and, for every sorted list of at least two rings,
\* lists whose rings share a radius included, a record whose pattern is the
\* first matching of consistent, accelerating, decelerating, variable
\* (stated as the claim; the code violates it).
C18_PatternForEveryList ==
    Ran("growth") =>
        IF Len(rings) < 2
        THEN /\ exc = "none"
             /\ growth_analysis.growth_pattern = "insufficient_data"
             /\ growth_analysis.average_ring_spacing = 0
             /\ growth_analysis.growth_rate = "unknown"
             /\ growth_analysis.growth_consistency = 0
        ELSE LET d == Differences(rings)
                 sum == SumSeq(d)
                 variance == Len(d) * SumSquares(d) - sum * sum
                 first == d[1]
                 last == d[Len(d)]
             IN  /\ exc = "none"
                 /\ growth_analysis.growth_pattern =
                        (IF sum > 0 /\ 25 * variance < sum * sum THEN "consistent"
                         ELSE IF 2 * last > 3 * first THEN "accelerating"
                         ELSE IF 10 * last < 7 * first THEN "decelerating"
                         ELSE "variable")

\* C20: for every sorted list of at least two rings growth_consistency is
\* clamp01(1 - stddev / mean) * 100 and lies in [0, 100], in hundredths
\* 0..10000 (stated as the claim; the code violates it).
C20_ConsistencyClamped ==
    (Ran("growth") /\ exc = "none" /\ Len(rings) >= 2) =>
        /\ growth_analysis.growth_consistency \in 0..10000
        /\ SumSeq(Differences(rings)) > 0 =>
               growth_analysis.growth_consistency =
                   Max(0, Min(10000, 10000 - CVHundredths(Differences(rings))))

C21_ResolutionTermInclusive ==
    Ran("confidence") =>
        LET height == upload.image.shape[1]
            width == upload.image.shape[2]
        IN  confidence_score - (RingCountTerm(rings) + RingOrderTerm(rings)
                                + AreaTerm(measurements) + CircularityTerm(measurements))
            = (IF height >= 500 /\ width >= 500 THEN 20
               ELSE IF height >= 200 /\ width >= 200 THEN 10
               ELSE 0)

\* C22 as stated: the ordering term of the confidence score is 20 exactly
\* when the radii of a non-empty ring list are strictly increasing, a
\* single ring counting as such, and 0 otherwise.
C22_OrderTermForEveryNonEmptyList ==
    Ran("confidence") =>
        confidence_score - (ResolutionTerm(upload.image.shape) + RingCountTerm(rings)
                            + AreaTerm(measurements) + CircularityTerm(measurements))
        = (IF Len(rings) >= 1 /\ StrictlyIncreasing(rings) THEN 20 ELSE 0)

\* C22, amended: the ordering term is 20 exactly when the list has at least
\* two rings and their radii are strictly increasing; a single ring and the
\* empty list get 0.
C22_OrderTermNeedsTwoRings ==
    Ran("confidence") =>
        /\ Len(rings) <= 1 =>
               confidence_score = ResolutionTerm(upload.image.shape) + RingCountTerm(rings)
                                  + AreaTerm(measurements) + CircularityTerm(measurements)
        /\ Len(rings) >= 2 =>
               confidence_score - (ResolutionTerm(upload.image.shape) + RingCountTerm(rings)
                                   + AreaTerm(measurements) + CircularityTerm(measurements))
               = (IF StrictlyIncreasing(rings) THEN 20 ELSE 0)

\* Witness of C22: the confidence of a single ring has been scored.
C22_Witness == Ran("confidence") /\ Len(rings) = 1

\* C23: the ring count term is min(30, 5 * ring count), the outline adds 15
\* iff its area is above 1000 and 10 iff its circularity is strictly
\* between 0.3 and 0.8, each whatever the other terms are, and the score is
\* the sum of all terms capped at 100.
C23_TermsAdditive ==
    Ran("confidence") =>
        confidence_score =
            Min(100, ResolutionTerm(upload.image.shape) + RingOrderTerm(rings)
                     + Min(30, 5 * Len(rings))
                     + (IF measurements.area > 100000 THEN 15 ELSE 0)
                     + (IF measurements.circularity > 30 /\ measurements.circularity < 80
                        THEN 10 ELSE 0))

\* Witness of C23: seven rings, whose count term is capped at 30, with an
\* outline that earns both outline terms.
C23_Witness ==
    /\ Ran("confidence")
    /\ Len(rings) = 7
    /\ measurements.area > 100000
    /\ measurements.circularity > 30 /\ measurements.circularity < 80
    /\ confidence_score = 95

\* The advisories of generate_recommendations.
LowConfidenceAdvice == "Low confidence analysis. Consider using higher resolution images."

FewRingsAdvice == "Few growth rings detected. Ensure image shows clear otolith cross-section."

IrregularShapeAdvice == "Irregular otolith shape detected. Verify proper sectioning technique."

SmallOtolithAdvice ==
    "Small otolith detected. Consider higher magnification for better ring visibility."

ReliableMessage == "Good quality analysis. Results appear reliable."

InSeq(x, s) == \E i \in 1..Len(s) : s[i] = x

\* C24: the recommendations are, in the order confidence < 50, ring count
\* < 3, circularity < 0.3, area < 500 and without duplicates, exactly the
\* advisories whose condition holds; they are the single affirming message
\* if and only if no condition holds, and never empty.
C24_AdvisoriesExactlyThoseThatApply ==
    Returning =>
        LET recs == result.recommendations
            low == result.confidence_score < 50
            few == result.growth_rings.count < 3
            irregular == result.measurements.circularity < 30
            small == result.measurements.area < 50000
            advisories == (IF low THEN <<LowConfidenceAdvice>> ELSE <<>>)
                          \o (IF few THEN <<FewRingsAdvice>> ELSE <<>>)
                          \o (IF irregular THEN <<IrregularShapeAdvice>> ELSE <<>>)
                          \o (IF small THEN <<SmallOtolithAdvice>> ELSE <<>>)
        IN  /\ recs # <<>>
            /\ \A i \in 1..Len(recs) : \A j \in 1..Len(recs) : recs[i] = recs[j] => i = j
            /\ (low \/ few \/ irregular \/ small) => recs = advisories
            /\ recs = <<ReliableMessage>> <=> ~(low \/ few \/ irregular \/ small)

\* Witness of C24: a result for which all four advisories apply.
C24_Witness == Returning /\ Len(result.recommendations) = 4

\* The image has no contour, or its largest contour has fewer than 5 points.
NoOutline(image) ==
    /\ ~image.contour_raises
    /\ image.contours = <<>> \/ LargestContour(image.contours).npoints < 5

\* C25 as stated: without a contour, or with a largest contour of fewer
\* than 5 points, the measurements are the zeroed outline, every numeric
\* field of which, aspect_ratio included, is 0, and no error comes of it.
C25_ZeroedOutlineAllZero ==
    (Ran("measure") /\ NoOutline(upload.image)) =>
        /\ measurements.area = 0 /\ measurements.perimeter = 0
        /\ measurements.major_axis = 0 /\ measurements.minor_axis = 0
        /\ measurements.aspect_ratio = 0 /\ measurements.circularity = 0
        /\ measurements.center = [x |-> 0, y |-> 0] /\ measurements.orientation = 0
        /\ "measure" \notin failed

\* C25, amended: the zeroed outline has aspect_ratio 1 (100 hundredths) and
\* 0 in every other numeric field; the stage raises nothing, and the
\* returned result carries the outline and no error for it.
C25_ZeroedOutlineAspectOne ==
    (Ran("measure") /\ NoOutline(upload.image)) =>
        /\ measurements.area = 0 /\ measurements.perimeter = 0
        /\ measurements.major_axis = 0 /\ measurements.minor_axis = 0
        /\ measurements.aspect_ratio = 100 /\ measurements.circularity = 0
        /\ measurements.center = [x |-> 0, y |-> 0] /\ measurements.orientation = 0
        /\ "measure" \notin failed
        /\ pc = "age" => exc = "none"
        /\ pc = "return" =>
               ("error" \notin DOMAIN result /\ result.measurements = measurements)

\* Witness of C25: a returned result for an image whose one contour has
\* four points.
C25_Witness ==
    /\ Returning
    /\ upload.image.contours = <<TinyContour>>

\* C29: for every successful result with at least two rings and positive
\* mean spacing, growth_pattern 'consistent' implies that estimated_age is
\* the ring count.
C29_ConsistentNeverJittered ==
    Returning =>
        LET rs == result.growth_rings.rings_detected
        IN  (/\ Len(rs) >= 2
             /\ SumSeq(Differences(rs)) > 0
             /\ result.growth_analysis.growth_pattern = "consistent")
            => result.estimated_age = result.growth_rings.count

\* Witness of C29: a 'consistent' result whose spacings are not all equal.
C29_Witness ==
    /\ Returning
    /\ result.growth_rings.count >= 3
    /\ result.growth_analysis.growth_pattern = "consistent"
    /\ LET d == Differences(result.growth_rings.rings_detected) IN d[1] # d[2]

\* C30: a successful result with no ring has confidence_score at most 45,
\* holds the low-confidence and the few-rings advisories and not the
\* affirming message; and the affirming message implies confidence >= 50,
\* at least 3 rings, circularity >= 0.3 and area >= 500.
C30_AffirmingOnlyWhenSound ==
    Returning =>
        /\ result.growth_rings.count = 0 =>
               /\ result.confidence_score <= 45
               /\ InSeq(LowConfidenceAdvice, result.recommendations)
               /\ InSeq(FewRingsAdvice, result.recommendations)
               /\ ~InSeq(ReliableMessage, result.recommendations)
        /\ InSeq(ReliableMessage, result.recommendations) =>
               /\ result.confidence_score >= 50
               /\ result.growth_rings.count >= 3
               /\ result.measurements.circularity >= 30
               /\ result.measurements.area >= 50000

\* Witness of C30: a result with no ring and confidence_score 45.
C30_Witness ==
    /\ Returning
    /\ result.growth_rings.count = 0
    /\ result.confidence_score = 45

\* The stages of one invocation in the order of the code.
StageOrder == <<"decode", "detect", "measure", "age", "growth", "confidence", "recommend">>

IsPrefix(s, t) == Len(s) <= Len(t) /\ \A i \in 1..Len(s) : s[i] = t[i]

\* C26: within one invocation the stages run at most once each and in the
\* order decode, ring detection, outline measurement, age estimation,
\* growth analysis, confidence scoring, recommendations; when decoding
\* fails no later stage runs before the error result is returned.
C26_StagesOnceInOrder ==
    /\ IsPrefix(trace, StageOrder)
    /\ "decode" \in failed => trace = <<"decode">>
    /\ \A i \in 1..Len(calls) :
           /\ IsPrefix(calls[i].stages, StageOrder)
           /\ "decode" \in calls[i].failed =>
                  /\ calls[i].stages = <<"decode">>
                  /\ calls[i].returned
                  /\ HasError(calls[i].result)
           /\ Succeeded(calls[i]) => calls[i].stages = StageOrder

\* Witness of C26: a call whose decoding failed has returned.
C26_Witness ==
    /\ Len(calls) >= 1
    /\ "decode" \in calls[1].failed
    /\ calls[1].returned

\* C27: every invocation of analyze_otolith_image eventually returns, on
\* the success path and on every failure path, and leaves exactly one
\* result record; no stage is run a second time.
C27_EveryCallReturnsOneRecord ==
    /\ \A n \in 0..(MaxCalls - 1) :
           (pc = "import" /\ Len(calls) = n)
               ~> (pc = "idle" /\ Len(calls) = n + 1 /\ calls[n + 1].returned)
    /\ [](\A i \in 1..Len(trace) : \A j \in 1..Len(trace) : trace[i] = trace[j] => i = j)
    /\ [](Len(calls) <= Len(responses) /\ Len(calls) <= MaxCalls)

\* Witness of C27: a call that failed in a stage has returned its record.
C27_Witness ==
    /\ Len(calls) >= 1
    /\ calls[1].returned
    /\ "growth" \in calls[1].failed
    /\ HasError(calls[1].result)

\* C28: under every interleaving of connects, disconnects handled by
\* websocket_endpoint and broadcasts, manager.disconnect is only applied to
\* a connection active_connections still holds: no removal fails, and once
\* a broadcast is over no connection whose send failed is left in the list
\* (stated as the claim; the code violates it).
C28_DisconnectOnlyOfActive ==
    /\ remove_failed = {}
    /\ \A w \in DOMAIN endpoint : endpoint[w] # "crashed"
    /\ \A b \in DOMAIN broadcasts :
           /\ broadcasts[b].pc # "crashed"
           /\ broadcasts[b].pc = "done" =>
                  \A i \in 1..Len(broadcasts[b].to_remove) :
                      ~Contains(active_connections, broadcasts[b].to_remove[i])

=============================================================================
